---- MODULE Spec2Model ----
(***************************************************************************)
(* A model of the url-prefix crate (src/src/lib.rs): the Protocol enum     *)
(* generated by impl_protocol!, create_prefix, and the wrappers that take  *)
(* values validated by the `validators` crate.                             *)
(*                                                                         *)
(* A Rust string is a sequence of one-character strings, Option<T> is a    *)
(* sequence of length 0 (None) or 1 (Some), and a u16 is a number in       *)
(* 0..65535.  Every function of the crate is pure: a behaviour is one call *)
(* (pc = "call", the arguments chosen) followed by its return (pc = "ret", *)
(* the result stored).                                                     *)
(***************************************************************************)
EXTENDS Integers, Sequences, FiniteSets

VARIABLES pc, fn, protocol, domain, port, path, s, validated, http_url,
          prefix, found, name, default_port

vars == <<pc, fn, protocol, domain, port, path, s, validated, http_url,
          prefix, found, name, default_port>>

(***************************************************************************)
(* Bounds of the input sets.                                               *)
(***************************************************************************)
MaxNameLen == 2
MaxDomainLen == 2
MaxPathLen == 2
MaxStrLen == 5

SeqsUpTo(S, n) == UNION {[1..k -> S] : k \in 0..n}

None == <<>>
Some(x) == <<x>>

(***************************************************************************)
(* str::to_lowercase and u16::to_string, as the standard library computes  *)
(* them on the characters used here.                                       *)
(***************************************************************************)
UpperAlpha == <<"A","B","C","D","E","F","G","H","I","J","K","L","M",
                "N","O","P","Q","R","S","T","U","V","W","X","Y","Z">>
LowerAlpha == <<"a","b","c","d","e","f","g","h","i","j","k","l","m",
                "n","o","p","q","r","s","t","u","v","w","x","y","z">>

char_to_lowercase(c) ==
    IF \E i \in DOMAIN UpperAlpha : UpperAlpha[i] = c
    THEN LowerAlpha[CHOOSE i \in DOMAIN UpperAlpha : UpperAlpha[i] = c]
    ELSE c

to_lowercase(str) == [i \in 1..Len(str) |-> char_to_lowercase(str[i])]

DigitChars == <<"0","1","2","3","4","5","6","7","8","9">>

RECURSIVE to_string(_)
to_string(n) ==
    IF n < 10 THEN <<DigitChars[n + 1]>>
    ELSE to_string(n \div 10) \o <<DigitChars[(n % 10) + 1]>>

starts_with(str, pat) ==
    /\ Len(str) >= Len(pat)
    /\ SubSeq(str, 1, Len(pat)) = pat

(***************************************************************************)
(* impl_protocol!(HTTP, "http", 80, HTTPS, "https", 443, FTP, "ftp", 21)   *)
(***************************************************************************)
ProtocolTable ==
    << [protocol |-> "HTTP",  name |-> <<"h","t","t","p">>,     port |-> 80],
       [protocol |-> "HTTPS", name |-> <<"h","t","t","p","s">>, port |-> 443],
       [protocol |-> "FTP",   name |-> <<"f","t","p">>,         port |-> 21] >>

HTTP == [tag |-> "HTTP"]
HTTPS == [tag |-> "HTTPS"]
FTP == [tag |-> "FTP"]
Custom(n, p) == [tag |-> "Custom", name |-> n, port |-> p]

Entry(tag) == ProtocolTable[CHOOSE i \in DOMAIN ProtocolTable : ProtocolTable[i].protocol = tag]

get_default_from_str_cased(str) ==
    IF \E i \in DOMAIN ProtocolTable : ProtocolTable[i].name = str
    THEN Some([tag |-> ProtocolTable[CHOOSE i \in DOMAIN ProtocolTable :
                                       ProtocolTable[i].name = str].protocol])
    ELSE None

get_default_from_str(str) ==
    LET lowered_case == to_lowercase(str)
    IN  IF \E i \in DOMAIN ProtocolTable : ProtocolTable[i].name = lowered_case
        THEN Some([tag |-> ProtocolTable[CHOOSE i \in DOMAIN ProtocolTable :
                                 ProtocolTable[i].name = lowered_case].protocol])
        ELSE None

get_default_from_string(str) ==
    LET lowered_case == to_lowercase(str)
    IN  IF \E i \in DOMAIN ProtocolTable : ProtocolTable[i].name = lowered_case
        THEN Some([tag |-> ProtocolTable[CHOOSE i \in DOMAIN ProtocolTable :
                                 ProtocolTable[i].name = lowered_case].protocol])
        ELSE None

get_default_port_pasted(p) ==
    IF p.tag = "Custom" THEN p.port
    ELSE IF p.tag = "HTTPS" THEN Entry("HTTP").port ELSE Entry(p.tag).port

get_default_port(p) ==
    IF p.tag = "Custom" THEN p.port ELSE Entry(p.tag).port

get_name_upper(p) ==
    IF p.tag = "Custom" THEN p.name
    ELSE IF p.tag = "HTTP" THEN <<"H","T","T","P">> ELSE Entry(p.tag).name

get_name(p) ==
    IF p.tag = "Custom" THEN p.name ELSE Entry(p.tag).name

(***************************************************************************)
(* create_prefix, in the three steps of its body.                          *)
(***************************************************************************)
format_scheme_host(protocol_name, dom) == protocol_name \o <<":", "/", "/">> \o dom

push_port_always(pre, proto, prt) ==
    IF prt # None THEN (pre \o <<":">>) \o to_string(prt[1]) ELSE pre

push_port_default(pre, proto, prt) ==
    IF prt # None
    THEN LET protocol_port == get_default_port(proto)
         IN  IF prt[1] # protocol_port
             THEN (pre \o <<":">>) \o to_string(protocol_port)
             ELSE pre
    ELSE pre

push_port(pre, proto, prt) ==
    IF prt # None
    THEN LET protocol_port == get_default_port(proto)
         IN  IF prt[1] # protocol_port
             THEN (pre \o <<":">>) \o to_string(prt[1])
             ELSE pre
    ELSE pre

push_path_always_slash(pre, pth) ==
    IF pth # None THEN (pre \o <<"/">>) \o pth[1] ELSE pre

push_path_never_slash(pre, pth) ==
    IF pth # None THEN pre \o pth[1] ELSE pre

push_path(pre, pth) ==
    IF pth # None
    THEN (IF ~starts_with(pth[1], <<"/">>) THEN pre \o <<"/">> ELSE pre) \o pth[1]
    ELSE pre

create_prefix_path_first(proto, dom, prt, pth) ==
    push_port(push_path(format_scheme_host(get_name(proto), dom), pth), proto, prt)

create_prefix(proto, dom, prt, pth) ==
    LET protocol_name == get_name(proto)
    IN  push_path(push_port(format_scheme_host(protocol_name, dom), proto, prt), pth)

(***************************************************************************)
(* Values of the validators crate, seen through the accessors the wrappers *)
(* call: a Domain, IPv4 or IPv6 carries its text without the port and an   *)
(* optional port; a Host is one of the three, tagged; an                   *)
(* HttpUrlLocalableWithProtocol carries is_https, a Host and an optional   *)
(* path.                                                                   *)
(***************************************************************************)
get_port(v) == v.port
get_full_domain_without_port(v) == v.text
get_full_ipv4_without_port(v) == v.text
get_full_ipv6_without_port(v) == v.text
is_https(u) == u.https
get_host(u) == u.host
get_path(u) == u.path

create_prefix_with_validated_domain(proto, dom, pth) ==
    LET prt == get_port(dom)
        d == get_full_domain_without_port(dom)
    IN  create_prefix(proto, d, prt, pth)

create_prefix_with_validated_ipv4(proto, ipv4, pth) ==
    LET prt == get_port(ipv4)
        a == get_full_ipv4_without_port(ipv4)
    IN  create_prefix(proto, a, prt, pth)

create_prefix_with_validated_ipv6_bare(proto, ipv6, pth) ==
    create_prefix(proto, get_full_ipv6_without_port(ipv6), get_port(ipv6), pth)

create_prefix_with_validated_ipv6(proto, ipv6, pth) ==
    LET prt == get_port(ipv6)
        a == get_full_ipv6_without_port(ipv6)
        bracketed == (<<"[">> \o a) \o <<"]">>
    IN  create_prefix(proto, bracketed, prt, pth)

create_prefix_with_validated_host(proto, host, pth) ==
    CASE host.tag = "Domain" -> create_prefix_with_validated_domain(proto, host.value, pth)
      [] host.tag = "IPv4"   -> create_prefix_with_validated_ipv4(proto, host.value, pth)
      [] host.tag = "IPv6"   -> create_prefix_with_validated_ipv6(proto, host.value, pth)

create_prefix_with_validated_http_url_swapped(u) ==
    LET proto == IF is_https(u) THEN HTTP ELSE HTTPS
    IN  create_prefix_with_validated_host(proto, get_host(u), get_path(u))

create_prefix_with_validated_http_url(u) ==
    LET proto == IF is_https(u) THEN HTTPS ELSE HTTP
    IN  create_prefix_with_validated_host(proto, get_host(u), get_path(u))

(***************************************************************************)
(* The bounded input sets.                                                 *)
(***************************************************************************)
NameChars == {"W", ":", "8"}
DomainChars == {"h", ":", "8"}
PathChars == {"/", ":", "8"}
StrChars == {"h", "t", "p", "s", "f", "H", "T", "P"}

PortValues == {0, 8, 21, 80, 443, 65535}
CustomPorts == {8, 80}

OptionOf(S) == {None} \cup {Some(x) : x \in S}

Protocols ==
    {HTTP, HTTPS, FTP}
        \cup {Custom(n, p) : n \in SeqsUpTo(NameChars, MaxNameLen), p \in CustomPorts}
Domains == SeqsUpTo(DomainChars, MaxDomainLen)
Ports == OptionOf(PortValues)
Paths == OptionOf(SeqsUpTo(PathChars, MaxPathLen))
Strs == SeqsUpTo(StrChars, MaxStrLen)

DomainTexts == { <<"a", ".", "b">>, <<"l","o","c","a","l","h","o","s","t">> }
IPv4Texts == { <<"1","2","7",".","0",".","0",".","1">> }
IPv6Texts == { <<":", ":", "1">>, <<"0",":","0",":","0",":","0",":","0",":","0",":","3","7","0",":","7","3","4","8">> }

ValidatedOf(texts) == {[text |-> t, port |-> p] : t \in texts, p \in Ports}
ValidatedDomains == ValidatedOf(DomainTexts)
ValidatedIPv4s == ValidatedOf(IPv4Texts)
ValidatedIPv6s == ValidatedOf(IPv6Texts)
Hosts ==
    {[tag |-> "Domain", value |-> v] : v \in ValidatedDomains}
        \cup {[tag |-> "IPv4", value |-> v] : v \in ValidatedIPv4s}
        \cup {[tag |-> "IPv6", value |-> v] : v \in ValidatedIPv6s}
HttpUrls == {[https |-> b, host |-> h, path |-> q] : b \in BOOLEAN, h \in Hosts, q \in Paths}

(***************************************************************************)
(* The state machine: a call with its arguments, then its return.          *)
(***************************************************************************)
NoProtocol == [tag |-> "none"]
NoValue == [tag |-> "none"]

InitPrefix ==
    /\ pc = "call" /\ fn = "create_prefix"
    /\ protocol \in Protocols /\ domain \in Domains /\ port \in Ports /\ path \in Paths
    /\ s = <<>> /\ validated = NoValue /\ http_url = NoValue
    /\ prefix = <<>> /\ found = None /\ name = <<>> /\ default_port = 0

InitProtocol ==
    /\ pc = "call"
    /\ \/ /\ fn \in {"get_default_from_str", "get_default_from_string"}
          /\ s \in Strs /\ protocol = NoProtocol
       \/ /\ fn \in {"get_default_port", "get_name"}
          /\ s = <<>> /\ protocol \in Protocols
    /\ domain = <<>> /\ port = None /\ path = None
    /\ validated = NoValue /\ http_url = NoValue
    /\ prefix = <<>> /\ found = None /\ name = <<>> /\ default_port = 0

InitValidated ==
    /\ pc = "call"
    /\ \/ /\ fn = "create_prefix_with_validated_domain"
          /\ validated \in ValidatedDomains /\ protocol \in Protocols /\ path \in Paths
          /\ http_url = NoValue
       \/ /\ fn = "create_prefix_with_validated_ipv4"
          /\ validated \in ValidatedIPv4s /\ protocol \in Protocols /\ path \in Paths
          /\ http_url = NoValue
       \/ /\ fn = "create_prefix_with_validated_ipv6"
          /\ validated \in ValidatedIPv6s /\ protocol \in Protocols /\ path \in Paths
          /\ http_url = NoValue
       \/ /\ fn = "create_prefix_with_validated_host"
          /\ validated \in Hosts /\ protocol \in Protocols /\ path \in Paths
          /\ http_url = NoValue
       \/ /\ fn = "create_prefix_with_validated_http_url"
          /\ http_url \in HttpUrls
          /\ validated = NoValue /\ protocol = NoProtocol /\ path = None
    /\ domain = <<>> /\ port = None /\ s = <<>>
    /\ prefix = <<>> /\ found = None /\ name = <<>> /\ default_port = 0

args == <<protocol, domain, port, path, s, validated, http_url>>

Returns(f) == pc = "call" /\ fn = f /\ pc' = "ret" /\ fn' = f /\ UNCHANGED args

Call_create_prefix ==
    /\ Returns("create_prefix")
    /\ prefix' = create_prefix(protocol, domain, port, path)
    /\ UNCHANGED <<found, name, default_port>>

Call_get_default_from_str ==
    /\ Returns("get_default_from_str")
    /\ found' = get_default_from_str(s)
    /\ UNCHANGED <<prefix, name, default_port>>

Call_get_default_from_string ==
    /\ Returns("get_default_from_string")
    /\ found' = get_default_from_string(s)
    /\ UNCHANGED <<prefix, name, default_port>>

Call_get_default_port ==
    /\ Returns("get_default_port")
    /\ default_port' = get_default_port(protocol)
    /\ UNCHANGED <<prefix, found, name>>

Call_get_name ==
    /\ Returns("get_name")
    /\ name' = get_name(protocol)
    /\ UNCHANGED <<prefix, found, default_port>>

Call_create_prefix_with_validated_domain ==
    /\ Returns("create_prefix_with_validated_domain")
    /\ prefix' = create_prefix_with_validated_domain(protocol, validated, path)
    /\ UNCHANGED <<found, name, default_port>>

Call_create_prefix_with_validated_ipv4 ==
    /\ Returns("create_prefix_with_validated_ipv4")
    /\ prefix' = create_prefix_with_validated_ipv4(protocol, validated, path)
    /\ UNCHANGED <<found, name, default_port>>

Call_create_prefix_with_validated_ipv6 ==
    /\ Returns("create_prefix_with_validated_ipv6")
    /\ prefix' = create_prefix_with_validated_ipv6(protocol, validated, path)
    /\ UNCHANGED <<found, name, default_port>>

Call_create_prefix_with_validated_host ==
    /\ Returns("create_prefix_with_validated_host")
    /\ prefix' = create_prefix_with_validated_host(protocol, validated, path)
    /\ UNCHANGED <<found, name, default_port>>

Call_create_prefix_with_validated_http_url ==
    /\ Returns("create_prefix_with_validated_http_url")
    /\ prefix' = create_prefix_with_validated_http_url(http_url)
    /\ UNCHANGED <<found, name, default_port>>

NextPrefix == Call_create_prefix

NextProtocol ==
    \/ Call_get_default_from_str
    \/ Call_get_default_from_string
    \/ Call_get_default_port
    \/ Call_get_name

NextValidated ==
    \/ Call_create_prefix_with_validated_domain
    \/ Call_create_prefix_with_validated_ipv4
    \/ Call_create_prefix_with_validated_ipv6
    \/ Call_create_prefix_with_validated_host
    \/ Call_create_prefix_with_validated_http_url

Init == InitPrefix \/ InitProtocol \/ InitValidated

Next == NextPrefix \/ NextProtocol \/ NextValidated

Spec == Init /\ [][Next]_vars

\* One specification per part of the crate: create_prefix, the Protocol
\* impl, and the validated-input wrappers.
SpecPrefix == InitPrefix /\ [][NextPrefix]_vars
SpecProtocol == InitProtocol /\ [][NextProtocol]_vars
SpecValidated == InitValidated /\ [][NextValidated]_vars

Called(f) == pc = "ret" /\ fn = f

(***************************************************************************)
(* Vocabulary of the properties.                                           *)
(***************************************************************************)
IsUpper(c) == \E i \in DOMAIN UpperAlpha : UpperAlpha[i] = c
IsDigit(c) == \E i \in DOMAIN DigitChars : DigitChars[i] = c
DigitValue(c) == (CHOOSE i \in DOMAIN DigitChars : DigitChars[i] = c) - 1

RECURSIVE DecValue(_)
DecValue(d) ==
    IF d = <<>> THEN 0
    ELSE 10 * DecValue(SubSeq(d, 1, Len(d) - 1)) + DigitValue(d[Len(d)])

\* d is the decimal numeral of n: digits only, no leading zero, value n.
IsDecimalOf(d, n) ==
    /\ Len(d) >= 1
    /\ \A i \in 1..Len(d) : IsDigit(d[i])
    /\ Len(d) > 1 => d[1] # "0"
    /\ DecValue(d) = n

NumDigits(n) == CHOOSE k \in 1..5 : n < 10^k /\ (k = 1 \/ n >= 10^(k - 1))

\* The positions at which pat occurs in str.
Occurrences(str, pat) ==
    {i \in 1..(Len(str) - Len(pat) + 1) : SubSeq(str, i, i + Len(pat) - 1) = pat}

SchemeSep == <<":", "/", "/">>

\* The text of out before its first "://".
EmittedName(out) ==
    LET occ == Occurrences(out, SchemeSep)
        first == CHOOSE i \in occ : \A j \in occ : i <= j
    IN  SubSeq(out, 1, first - 1)

PortShown(proto, prt) == prt # None /\ prt[1] # get_default_port(proto)

\* Length of the scheme and host part, and of the port part, of an output.
HostEnd(proto, dom) == Len(get_name(proto)) + 3 + Len(dom)
PortLen(proto, prt) == IF PortShown(proto, prt) THEN 1 + NumDigits(prt[1]) ELSE 0

\* A path with its leading '/' removed, when it has one.
RestOfPath(q) == IF q # <<>> /\ q[1] = "/" THEN Tail(q) ELSE q

PathPart(pth) ==
    IF pth = None THEN <<>>
    ELSE (IF pth[1] # <<>> /\ pth[1][1] = "/" THEN <<>> ELSE <<"/">>) \o pth[1]

\* out is name, "://", host, the port part when shown, the path part, in order.
Assembled(out, proto, dom, prt, pth) ==
    LET n == get_name(proto)
        k == HostEnd(proto, dom)
        np == PortLen(proto, prt)
    IN  /\ Len(out) = k + np + Len(PathPart(pth))
        /\ SubSeq(out, 1, Len(n)) = n
        /\ SubSeq(out, Len(n) + 1, Len(n) + 3) = SchemeSep
        /\ SubSeq(out, Len(n) + 4, k) = dom
        /\ PortShown(proto, prt) =>
              /\ out[k + 1] = ":"
              /\ IsDecimalOf(SubSeq(out, k + 2, k + np), prt[1])
        /\ SubSeq(out, k + np + 1, Len(out)) = PathPart(pth)

\* a and b are the same letter in either case, or the same character.
SameLetter(a, b) ==
    \/ a = b
    \/ \E i \in DOMAIN UpperAlpha :
          {a, b} = {UpperAlpha[i], LowerAlpha[i]}

CaseEq(a, b) == Len(a) = Len(b) /\ \A i \in 1..Len(a) : SameLetter(a[i], b[i])

SwapCase(str) ==
    [i \in 1..Len(str) |->
        IF \E j \in DOMAIN UpperAlpha : UpperAlpha[j] = str[i]
        THEN LowerAlpha[CHOOSE j \in DOMAIN UpperAlpha : UpperAlpha[j] = str[i]]
        ELSE IF \E j \in DOMAIN LowerAlpha : LowerAlpha[j] = str[i]
             THEN UpperAlpha[CHOOSE j \in DOMAIN LowerAlpha : LowerAlpha[j] = str[i]]
             ELSE str[i]]

ExpectedLookup(str) ==
    CASE CaseEq(str, <<"h","t","t","p">>)     -> Some(HTTP)
      [] CaseEq(str, <<"h","t","t","p","s">>) -> Some(HTTPS)
      [] CaseEq(str, <<"f","t","p">>)         -> Some(FTP)
      [] OTHER                                -> None

(***************************************************************************)
(* C1.  Default-port elision: create_prefix with Some(default port of the  *)
(* protocol) returns the same string as with None, and that string has no  *)
(* port part: it is scheme, "://", host and the path part only.            *)
(***************************************************************************)
C1_DefaultPortElided ==
    (Called("create_prefix") /\ port = Some(get_default_port(protocol))) =>
        /\ prefix = create_prefix(protocol, domain, None, path)
        /\ Len(prefix) = Len(get_name(protocol)) + 3 + Len(domain) + Len(PathPart(path))

C1_Witness ==
    /\ Called("create_prefix")
    /\ protocol.tag = "Custom"
    /\ port = Some(get_default_port(protocol))
    /\ protocol.name = <<"W">>
    /\ path # None
    /\ domain = <<"h">>

(***************************************************************************)
(* C2 as stated.  For a port p other than the default, the output holds    *)
(* ":" followed by the decimal digits of p exactly once, and that          *)
(* occurrence starts right after the host.                                 *)
(***************************************************************************)
C2_PortTextExactlyOnce ==
    (Called("create_prefix") /\ PortShown(protocol, port)) =>
        Occurrences(prefix, <<":">> \o to_string(port[1]))
            = {HostEnd(protocol, domain) + 1}

(***************************************************************************)
(* C2 as amended.  For a port p other than the default, ":" and the        *)
(* decimal digits of p stand right after the host; that is the only        *)
(* occurrence of this text in the output whenever the protocol name, the   *)
(* host and the path do not contain it themselves.                         *)
(***************************************************************************)
C2_PortTextAfterHost ==
    (Called("create_prefix") /\ PortShown(protocol, port)) =>
        LET k == HostEnd(protocol, domain)
            np == PortLen(protocol, port)
            pat == SubSeq(prefix, k + 1, k + np)
        IN  /\ Len(prefix) >= k + np
            /\ pat[1] = ":"
            /\ IsDecimalOf(Tail(pat), port[1])
            /\ (/\ Occurrences(get_name(protocol), pat) = {}
                /\ Occurrences(domain, pat) = {}
                /\ path # None => Occurrences(path[1], pat) = {})
                  => Occurrences(prefix, pat) = {k + 1}

C2_Witness ==
    /\ Called("create_prefix")
    /\ port = Some(65535)
    /\ path # None
    /\ domain # <<>>
    /\ Cardinality(Occurrences(prefix, <<":", "6", "5", "5", "3", "5">>)) = 1

(***************************************************************************)
(* C3 as stated.  For every path x, create_prefix with Some(x) and with    *)
(* Some("/" + x) return the same string (no port given).                   *)
(***************************************************************************)
C3_LeadingSlashIdempotent ==
    (Called("create_prefix") /\ port = None /\ path # None) =>
        prefix = create_prefix(protocol, domain, None, Some(<<"/">> \o path[1]))

(***************************************************************************)
(* C3 as amended.  For every path x that does not itself begin with "/",   *)
(* create_prefix with Some(x) and with Some("/" + x) return the same       *)
(* string.                                                                 *)
(***************************************************************************)
C3_LeadingSlashAdded ==
    (/\ Called("create_prefix") /\ port = None /\ path # None
     /\ ~starts_with(path[1], <<"/">>)) =>
        prefix = create_prefix(protocol, domain, None, Some(<<"/">> \o path[1]))

C3_Witness ==
    /\ Called("create_prefix")
    /\ port = None
    /\ path # None
    /\ path[1] # <<>>
    /\ ~starts_with(path[1], <<"/">>)

(***************************************************************************)
(* C4.  With a path p, the output is the accumulated prefix (scheme, host  *)
(* and optional port), then one "/", then the rest of p (p without its     *)
(* leading "/" when it has one): the "/" is there whether or not p brings  *)
(* it, and none is added when p brings it.                                 *)
(***************************************************************************)
C4_OneSeparator ==
    (Called("create_prefix") /\ path # None) =>
        LET rest == RestOfPath(path[1])
            acc == Len(prefix) - 1 - Len(rest)
        IN  /\ acc = HostEnd(protocol, domain) + PortLen(protocol, port)
            /\ SubSeq(prefix, 1, acc) = create_prefix(protocol, domain, port, None)
            /\ prefix[acc + 1] = "/"
            /\ SubSeq(prefix, acc + 2, Len(prefix)) = rest

C4_Witness ==
    /\ Called("create_prefix")
    /\ path # None
    /\ starts_with(path[1], <<"/">>)
    /\ Len(path[1]) > 1
    /\ PortShown(protocol, port)

(***************************************************************************)
(* C5.  Lookup by name: both lookups return Some(HTTP), Some(HTTPS) or     *)
(* Some(FTP) when the input equals "http", "https" or "ftp" up to letter   *)
(* case, None for every other input, and the same result for the input     *)
(* with the case of every letter flipped.                                  *)
(***************************************************************************)
C5_LookupCaseInsensitive ==
    /\ Called("get_default_from_str") =>
          /\ found = ExpectedLookup(s)
          /\ found = get_default_from_str(SwapCase(s))
    /\ Called("get_default_from_string") =>
          /\ found = ExpectedLookup(s)
          /\ found = get_default_from_string(SwapCase(s))

C5_Witness ==
    /\ Called("get_default_from_str")
    /\ s = <<"H", "t", "T", "P", "s">>
    /\ found = Some(HTTPS)

(***************************************************************************)
(* C6 as stated.  For every protocol, built-in or Custom, the name that    *)
(* create_prefix emits before "://" has no uppercase letter.               *)
(***************************************************************************)
C6_SchemeLowercase ==
    Called("create_prefix") =>
        \A i \in 1..Len(EmittedName(prefix)) : ~IsUpper(EmittedName(prefix)[i])

(***************************************************************************)
(* C6 as amended.  For every built-in protocol the name that create_prefix *)
(* emits before "://" has no uppercase letter; for Custom(name, port) the  *)
(* output starts with the caller's name, unchanged, then "://".            *)
(***************************************************************************)
C6_BuiltinSchemeLowercase ==
    Called("create_prefix") =>
        /\ protocol.tag # "Custom" =>
              /\ EmittedName(prefix) # <<>>
              /\ \A i \in 1..Len(EmittedName(prefix)) : ~IsUpper(EmittedName(prefix)[i])
        /\ protocol.tag = "Custom" =>
              starts_with(prefix, protocol.name \o SchemeSep)

C6_Witness ==
    /\ Called("create_prefix")
    /\ protocol = HTTP
    /\ EmittedName(prefix) = <<"h", "t", "t", "p">>

(***************************************************************************)
(* C7.  create_prefix returns, for every input, the concatenation in this  *)
(* order of get_name(), "://", the host unchanged, ":" and the decimal     *)
(* port only for a port other than the default, and for a path q a "/"     *)
(* when q does not begin with one, then q unchanged.                       *)
(***************************************************************************)
C7_Concatenation ==
    Called("create_prefix") => Assembled(prefix, protocol, domain, port, path)

C7_Witness ==
    /\ Called("create_prefix")
    /\ \E i \in 1..Len(domain) : domain[i] = ":"
    /\ PortShown(protocol, port)
    /\ path # None
    /\ ~starts_with(path[1], <<"/">>)

(***************************************************************************)
(* C8.  The accessors follow the table: ("http", 80), ("https", 443),      *)
(* ("ftp", 21), and for Custom(name, port) the caller's name and port.     *)
(***************************************************************************)
C8_AccessorTable ==
    /\ Called("get_name") =>
          name = CASE protocol.tag = "HTTP"   -> <<"h", "t", "t", "p">>
                   [] protocol.tag = "HTTPS"  -> <<"h", "t", "t", "p", "s">>
                   [] protocol.tag = "FTP"    -> <<"f", "t", "p">>
                   [] protocol.tag = "Custom" -> protocol.name
    /\ Called("get_default_port") =>
          default_port = CASE protocol.tag = "HTTP"   -> 80
                           [] protocol.tag = "HTTPS"  -> 443
                           [] protocol.tag = "FTP"    -> 21
                           [] protocol.tag = "Custom" -> protocol.port

C8_Witness ==
    /\ Called("get_default_port")
    /\ protocol = HTTPS
    /\ default_port = 443

(***************************************************************************)
(* C9.  Each validated-host wrapper returns what create_prefix returns for *)
(* the value's text (in "[" "]" for an IPv6 address, unchanged otherwise)  *)
(* and its embedded port; the Host wrapper returns what the wrapper of the *)
(* variant it holds returns.                                               *)
(***************************************************************************)
HostText(kind, v) ==
    IF kind = "IPv6" THEN (<<"[">> \o v.text) \o <<"]">> ELSE v.text

Forwards(kind, v) ==
    /\ prefix = create_prefix(protocol, HostText(kind, v), v.port, path)
    /\ Assembled(prefix, protocol, HostText(kind, v), v.port, path)

C9_WrappersForward ==
    /\ Called("create_prefix_with_validated_domain") => Forwards("Domain", validated)
    /\ Called("create_prefix_with_validated_ipv4") => Forwards("IPv4", validated)
    /\ Called("create_prefix_with_validated_ipv6") => Forwards("IPv6", validated)
    /\ Called("create_prefix_with_validated_host") =>
          /\ Forwards(validated.tag, validated.value)
          /\ validated.tag = "Domain" =>
                prefix = create_prefix_with_validated_domain(protocol, validated.value, path)
          /\ validated.tag = "IPv4" =>
                prefix = create_prefix_with_validated_ipv4(protocol, validated.value, path)
          /\ validated.tag = "IPv6" =>
                prefix = create_prefix_with_validated_ipv6(protocol, validated.value, path)

C9_Witness ==
    /\ Called("create_prefix_with_validated_host")
    /\ validated.tag = "IPv6"
    /\ protocol = HTTPS
    /\ validated.value.port = Some(443)
    /\ path # None
    /\ prefix[9] = "[" /\ \E i \in 1..Len(prefix) : prefix[i] = "]"

(***************************************************************************)
(* C10.  create_prefix_with_validated_http_url uses HTTPS when is_https()  *)
(* and HTTP otherwise, and returns what create_prefix_with_validated_host  *)
(* returns for that protocol, the URL's host and the URL's path: a port is *)
(* dropped exactly when it is 443 on https or 80 on http.                  *)
(***************************************************************************)
C10_HttpUrlForwards ==
    Called("create_prefix_with_validated_http_url") =>
        LET proto == IF http_url.https THEN HTTPS ELSE HTTP
            h == http_url.host
            text == HostText(h.tag, h.value)
            own == IF http_url.https THEN 443 ELSE 80
            kept == h.value.port # None /\ h.value.port[1] # own
        IN  /\ prefix = create_prefix_with_validated_host(proto, h, http_url.path)
            /\ Assembled(prefix, proto, text, h.value.port, http_url.path)
            /\ SubSeq(prefix, 1, Len(get_name(proto)))
                  = (IF http_url.https THEN <<"h","t","t","p","s">> ELSE <<"h","t","t","p">>)
            /\ Len(prefix) = Len(get_name(proto)) + 3 + Len(text)
                             + (IF kept THEN 1 + NumDigits(h.value.port[1]) ELSE 0)
                             + Len(PathPart(http_url.path))

C10_Witness ==
    /\ Called("create_prefix_with_validated_http_url")
    /\ ~http_url.https
    /\ http_url.host.value.port = Some(443)
    /\ Occurrences(prefix, <<":", "4", "4", "3">>) # {}

====
